---- MODULE Spec2Model ----
(***************************************************************************)
(* Meal ledger ("So cham com"): the App component of src/unnamed/part_001  *)
(* (lines 1-1640, the current screen) and the monthly_sheets table of      *)
(* src/unnamed/part_000.                                                   *)
(*                                                                         *)
(* The component is a React function component.  Its state is the useState *)
(* cells plus the isDirty ref; a step of the model is one macrotask of the *)
(* browser: a user event, a timer, or the arrival of a response, together  *)
(* with the render and the effects that follow it.  State updates made in  *)
(* one macrotask are applied in one render (automatic batching), and the   *)
(* effects of a render run in the order they are declared: the auto-save   *)
(* effect (line 164) before the mark-dirty effect (line 175) before the    *)
(* fetch effect (line 183).                                                *)
(***************************************************************************)
EXTENDS Integers, Sequences, FiniteSets, TLC

\* ------------------------------------------------------------------ bounds

\* User and environment events (edits, navigation, saves, auth events) in a run.
MaxEvents == 2
\* I/O failures (a failed upsert, a failed select) in a run.
MaxFail == 1
\* Students in the roster the editor can build by hand.
MaxStudents == 2

\* --------------------------------------------------------------- constants

NoUser == "null"
Owner == "u1"

DefaultSchoolName == "TRUONG PTDTBT TH&THCS SUOI LU"
DefaultClassName == "8C1"
DefaultTeacherName == "Vu Van Hung"
DefaultLocation == "Suoi Lu"
DefaultStandardMeals == [S |-> 14, T1 |-> 14, T2 |-> 12]
NewStudentName == "Hoc sinh moi"

MealTypes == {"S", "T1", "T2"}
NoMeals == [S |-> FALSE, T1 |-> FALSE, T2 |-> FALSE]
EmptyMealData == [d \in {} |-> NoMeals]
INITIAL_STUDENTS == << >>

\* Inputs the model draws from.
StudentIds == {"a", "b"}
TypedNames == {"Mai"}
TypedHeaders == {""}
EditDays == {1}
EditMeals == {"S"}
InitDates == {<<0, 2024>>}
TypedYears == {2023}

\* ------------------------------------------------------- ledger operations

SetDay(meals, day, v) ==
  [d \in (DOMAIN meals) \cup {day} |-> IF d = day THEN v ELSE meals[d]]

DayOf(meals, day) == IF day \in DOMAIN meals THEN meals[day] ELSE NoMeals

\* Mutant: the mark is set, not flipped.
toggleMealSets(prev, studentId, day, meal) ==
  [i \in DOMAIN prev |->
     IF prev[i].id # studentId THEN prev[i]
     ELSE [prev[i] EXCEPT !.meals = SetDay(@, day, [DayOf(@, day) EXCEPT ![meal] = TRUE])]]

toggleMeal(prev, studentId, day, meal) ==
  [i \in DOMAIN prev |->
     IF prev[i].id # studentId THEN prev[i]
     ELSE LET currentMeals == DayOf(prev[i].meals, day)
          IN [prev[i] EXCEPT !.meals =
                SetDay(@, day, [currentMeals EXCEPT ![meal] = ~currentMeals[meal]])]]

updateStudentName(prev, id, newName) ==
  [i \in DOMAIN prev |-> IF prev[i].id = id THEN [prev[i] EXCEPT !.name = newName]
                                          ELSE prev[i]]

addStudent(prev, newId) ==
  Append(prev, [id |-> newId, name |-> NewStudentName, meals |-> EmptyMealData])

RECURSIVE FilterOut(_, _)
FilterOut(s, id) ==
  IF s = << >> THEN << >>
  ELSE IF Head(s).id = id THEN FilterOut(Tail(s), id)
       ELSE <<Head(s)>> \o FilterOut(Tail(s), id)

removeStudent(prev, id) == FilterOut(prev, id)

\* x || d on a stored text column: null and the empty string are falsy.
OrDefault(x, d) == IF x = "" THEN d ELSE x

\* ------------------------------------------------------------------- dates

DAYS_OF_WEEK == <<"CN", "2", "3", "4", "5", "6", "7">>

\* new Date(year, month, day): a year of 0..99 stands for 1900 + year, and a
\* month outside 0..11 carries into the year.
DateYear(month, year) ==
  (IF year >= 0 /\ year <= 99 THEN 1900 + year ELSE year) + (month \div 12)

DateMonth(month) == month % 12

IsLeap(y) == (y % 4 = 0 /\ y % 100 # 0) \/ y % 400 = 0

MonthLength(m, y) ==
  IF m = 1 THEN (IF IsLeap(y) THEN 29 ELSE 28)
  ELSE IF m \in {3, 5, 8, 10} THEN 30 ELSE 31

RECURSIVE DaysBeforeMonth(_, _)
DaysBeforeMonth(m, y) ==
  IF m = 0 THEN 0 ELSE DaysBeforeMonth(m - 1, y) + MonthLength(m - 1, y)

\* Days from 0001-01-01 (a Monday, day 1) to the first of January of y.
DaysBeforeYear(y) ==
  365 * (y - 1) + ((y - 1) \div 4) - ((y - 1) \div 100) + ((y - 1) \div 400)

\* new Date(year, month + 1, 0).getDate()
getDaysInMonth(month, year) == MonthLength(DateMonth(month), DateYear(month, year))

\* Date.prototype.getDay of new Date(year, month, day): 0 is Sunday.
GetDay(day, month, year) ==
  LET y == DateYear(month, year)
      m == DateMonth(month)
  IN (DaysBeforeYear(y) + DaysBeforeMonth(m, y) + day) % 7

getDayOfWeek(day, month, year) == DAYS_OF_WEEK[GetDay(day, month, year) + 1]

\* ------------------------------------------------------ roster commands

\* { ...s.meals, [day]: { ...currentMeals, [meal]: v } } of one student
WithMark(s, day, meal, v) ==
  [s EXCEPT !.meals = SetDay(@, day, [DayOf(s.meals, day) EXCEPT ![meal] = v])]

\* Mutant: the clipboard is merged into the meals the student holds.
pasteMealsMerges(prev, studentId, clip) ==
  [i \in DOMAIN prev |->
     IF prev[i].id = studentId
     THEN [prev[i] EXCEPT !.meals =
             [d \in (DOMAIN @) \cup (DOMAIN clip) |->
                IF d \in DOMAIN clip THEN clip[d] ELSE @[d]]]
     ELSE prev[i]]

pasteMeals(prev, studentId, clip) ==
  [i \in DOMAIN prev |-> IF prev[i].id = studentId THEN [prev[i] EXCEPT !.meals = clip]
                                                 ELSE prev[i]]

pasteToAll(prev, clip) == [i \in DOMAIN prev |-> [prev[i] EXCEPT !.meals = clip]]

\* students.map(s => !!s.meals[day]?.[meal])
copyColumn(students, day, meal) ==
  [i \in DOMAIN students |-> DayOf(students[i].meals, day)[meal]]

\* Mutant: the copied value is not read, every mark is pasted false.
pasteColumnFalse(prev, day, meal, values) ==
  [i \in DOMAIN prev |-> WithMark(prev[i], day, meal, FALSE)]

\* Mutant: an index past the copied roster reads true.
pasteColumnTrueBeyond(prev, day, meal, values) ==
  [i \in DOMAIN prev |->
     WithMark(prev[i], day, meal, IF i \in DOMAIN values THEN values[i] ELSE TRUE)]

\* columnClipboard[idx] || false: an index past the copied roster reads false.
pasteColumn(prev, day, meal, values) ==
  [i \in DOMAIN prev |->
     WithMark(prev[i], day, meal, IF i \in DOMAIN values THEN values[i] ELSE FALSE)]

\* Mutant: the three meals of the day are set.
fillColumnWholeDay(prev, day, meal) ==
  [i \in DOMAIN prev |-> [prev[i] EXCEPT !.meals = SetDay(@, day, [S |-> TRUE, T1 |-> TRUE, T2 |-> TRUE])]]

fillColumn(prev, day, meal) == [i \in DOMAIN prev |-> WithMark(prev[i], day, meal, TRUE)]

\* Mutant: the mark of a student is written back as it was.
clearColumnKeepsMark(prev, day, meal) ==
  [i \in DOMAIN prev |-> WithMark(prev[i], day, meal, DayOf(prev[i].meals, day)[meal])]

clearColumn(prev, day, meal) == [i \in DOMAIN prev |-> WithMark(prev[i], day, meal, FALSE)]

\* Mutant: only the first student loses the day.
clearDayFirstOnly(prev, day) ==
  [i \in DOMAIN prev |->
     IF i = 1 THEN [prev[i] EXCEPT !.meals = [d \in (DOMAIN @) \ {day} |-> @[d]]]
     ELSE prev[i]]

\* delete newMeals[day]
clearDay(prev, day) ==
  [i \in DOMAIN prev |->
     [prev[i] EXCEPT !.meals = [d \in (DOMAIN @) \ {day} |-> @[d]]]]

\* Mutant: the students are dropped with their marks.
clearMonthEmptiesRoster(prev) == << >>

\* Mutant: the days stay in the mapping with three false flags.
clearMonthFalseFlags(prev) ==
  [i \in DOMAIN prev |-> [prev[i] EXCEPT !.meals = [d \in DOMAIN @ |-> NoMeals]]]

clearMonth(prev) == [i \in DOMAIN prev |-> [prev[i] EXCEPT !.meals = EmptyMealData]]

clearAllStudents == << >>

\* Mutant: Saturday is filled like Monday to Thursday.
RECURSIVE AutoFillSaturdays(_, _, _, _, _)
AutoFillSaturdays(newMeals, day, daysInMonth, m, y) ==
  IF day > daysInMonth THEN newMeals
  ELSE LET dow == getDayOfWeek(day, m, y)
           currentMeals == DayOf(newMeals, day)
       IN AutoFillSaturdays(
            IF dow = "CN" THEN newMeals
            ELSE SetDay(newMeals, day,
                        [currentMeals EXCEPT !.S = TRUE, !.T1 = TRUE, !.T2 = (dow # "6")]),
            day + 1, daysInMonth, m, y)

\* Mutant: a day that holds an entry is skipped.
RECURSIVE AutoFillUnmarked(_, _, _, _, _)
AutoFillUnmarked(newMeals, day, daysInMonth, m, y) ==
  IF day > daysInMonth THEN newMeals
  ELSE LET dow == getDayOfWeek(day, m, y)
       IN AutoFillUnmarked(
            IF dow = "7" \/ dow = "CN" \/ day \in DOMAIN newMeals THEN newMeals
            ELSE SetDay(newMeals, day, [S |-> TRUE, T1 |-> TRUE, T2 |-> (dow # "6")]),
            day + 1, daysInMonth, m, y)

\* The loop of autoFillMeals (lines 419-446) from day on.
RECURSIVE AutoFillFrom(_, _, _, _, _)
AutoFillFrom(newMeals, day, daysInMonth, m, y) ==
  IF day > daysInMonth THEN newMeals
  ELSE LET dow == getDayOfWeek(day, m, y)
           currentMeals == DayOf(newMeals, day)
       IN AutoFillFrom(
            IF dow = "7" \/ dow = "CN" THEN newMeals
            ELSE SetDay(newMeals, day,
                        [currentMeals EXCEPT !.S = TRUE, !.T1 = TRUE, !.T2 = (dow # "6")]),
            day + 1, daysInMonth, m, y)

autoFillMeals(prev, m, y) ==
  [i \in DOMAIN prev |->
     [prev[i] EXCEPT !.meals = AutoFillFrom(@, 1, getDaysInMonth(m, y), m, y)]]

\* Object.values(meals): the entries by ascending day.
RECURSIVE ValuesOf(_)
ValuesOf(meals) ==
  IF DOMAIN meals = {} THEN << >>
  ELSE LET d == CHOOSE x \in DOMAIN meals : \A z \in DOMAIN meals : x <= z
       IN <<meals[d]>> \o ValuesOf([z \in (DOMAIN meals) \ {d} |-> meals[z]])

\* Mutant: an entry counts for a meal whether or not its flag is set.
RECURSIVE CountEntries(_, _)
CountEntries(values, acc) ==
  IF values = << >> THEN acc
  ELSE CountEntries(Tail(values), [S |-> acc.S + 1, T1 |-> acc.T1 + 1, T2 |-> acc.T2 + 1])

\* The forEach of calculateStudentTotals (lines 496-500).
RECURSIVE CountMeals(_, _)
CountMeals(values, acc) ==
  IF values = << >> THEN acc
  ELSE LET dayMeals == Head(values)
       IN CountMeals(Tail(values),
                     [S |-> acc.S + (IF dayMeals.S THEN 1 ELSE 0),
                      T1 |-> acc.T1 + (IF dayMeals.T1 THEN 1 ELSE 0),
                      T2 |-> acc.T2 + (IF dayMeals.T2 THEN 1 ELSE 0)])

ZeroCounts == [S |-> 0, T1 |-> 0, T2 |-> 0]

calculateStudentTotals(student, standardMeals) ==
  LET c == CountMeals(ValuesOf(student.meals), ZeroCounts)
  IN [S |-> c.S, T1 |-> c.T1, T2 |-> c.T2,
      uS |-> standardMeals.S - c.S, uT1 |-> standardMeals.T1 - c.T1,
      uT2 |-> standardMeals.T2 - c.T2]

\* Mutant: a student with an entry for the day counts, whatever the flag.
RECURSIVE DayTotalOfEntries(_, _, _, _)
DayTotalOfEntries(students, n, day, meal) ==
  IF n = 0 THEN 0
  ELSE DayTotalOfEntries(students, n - 1, day, meal)
         + (IF day \in DOMAIN students[n].meals THEN 1 ELSE 0)

\* students.reduce((acc, s) => acc + (s.meals[day]?.[meal] ? 1 : 0), 0) over
\* the first n students.
RECURSIVE DayTotalOf(_, _, _, _)
DayTotalOf(students, n, day, meal) ==
  IF n = 0 THEN 0
  ELSE DayTotalOf(students, n - 1, day, meal)
         + (IF DayOf(students[n].meals, day)[meal] THEN 1 ELSE 0)

calculateDayTotals(students, day, meal) == DayTotalOf(students, Len(students), day, meal)

\* ------------------------------------------------------------------- store

KeyOf(r) == <<r.user_id, r.month, r.year>>

\* Mutant: the row is inserted beside the one that holds the key.
InsertInto(table, rec) == table \cup {rec}

\* upsert(..., { onConflict: 'user_id,month,year' }) on a table with
\* unique(user_id, month, year).
UpsertInto(table, rec) == {r \in table : KeyOf(r) # KeyOf(rec)} \cup {rec}

\* select * where user_id, month, year match: the rows found.
SelectKey(table, uid, m, y) == {r \in table : KeyOf(r) = <<uid, m, y>>}

Before(r, m, y) == r.year < y \/ (r.year = y /\ r.month < m)

\* .or(year.lt.Y,and(year.eq.Y,month.lt.M)).order(year desc).order(month desc).limit(1)
LatestBefore(table, uid, m, y) ==
  LET cand == {r \in table : r.user_id = uid /\ Before(r, m, y)}
  IN {r \in cand : \A q \in cand : q.year < r.year \/ (q.year = r.year /\ q.month <= r.month)}

RowOf(u, m, y, L) ==
  [user_id |-> u, month |-> m, year |-> y,
   class_name |-> L.className, teacher_name |-> L.teacherName,
   school_name |-> L.schoolName, location |-> L.location,
   students |-> L.students, standard_meals |-> L.standardMeals]

\* fetchData, data branch (lines 200-206): the ledger a row loads as.
LoadedLedger(data) ==
  [schoolName |-> OrDefault(data.school_name, DefaultSchoolName),
   className |-> OrDefault(data.class_name, DefaultClassName),
   teacherName |-> OrDefault(data.teacher_name, DefaultTeacherName),
   location |-> OrDefault(data.location, DefaultLocation),
   students |-> data.students,
   standardMeals |-> data.standard_meals]

\* Mutant: the marks are copied with the students.
copiedStudentsWithMeals(latestStudents) == latestStudents

\* fetchData, rollover branch (lines 228-231).
copiedStudents(latestStudents) ==
  [i \in DOMAIN latestStudents |-> [latestStudents[i] EXCEPT !.meals = EmptyMealData]]

\* fetchData, rollover branch (lines 220-232): the ledger seeded from latestData.
SeededLedger(latestData) ==
  [schoolName |-> OrDefault(latestData.school_name, DefaultSchoolName),
   className |-> OrDefault(latestData.class_name, DefaultClassName),
   teacherName |-> OrDefault(latestData.teacher_name, DefaultTeacherName),
   location |-> OrDefault(latestData.location, DefaultLocation),
   students |-> copiedStudents(latestData.students),
   standardMeals |-> latestData.standard_meals]

IndexOfId(s, id) ==
  IF \E i \in DOMAIN s : s[i].id = id
  THEN CHOOSE i \in DOMAIN s : s[i].id = id /\ \A j \in DOMAIN s : s[j].id = id => i <= j
  ELSE 0

\* syncFromPreviousMonth, the setStudents updater (lines 468-484): prevStudents
\* folded over newStudents, existence looked up in currentStudents.
RECURSIVE SyncFold(_, _, _)
SyncFold(currentStudents, newStudents, prevStudents) ==
  IF prevStudents = << >> THEN newStudents
  ELSE LET ps == Head(prevStudents)
           exists == \E i \in DOMAIN currentStudents : currentStudents[i].id = ps.id
           idx == IndexOfId(newStudents, ps.id)
       IN SyncFold(currentStudents,
                   IF ~exists THEN Append(newStudents, [ps EXCEPT !.meals = EmptyMealData])
                   ELSE [newStudents EXCEPT ![idx] = [@ EXCEPT !.name = ps.name]],
                   Tail(prevStudents))

\* Mutant: a student missing from the roster is appended with the marks of the
\* earlier month.
RECURSIVE SyncFoldWithMeals(_, _, _)
SyncFoldWithMeals(currentStudents, newStudents, prevStudents) ==
  IF prevStudents = << >> THEN newStudents
  ELSE LET ps == Head(prevStudents)
           exists == \E i \in DOMAIN currentStudents : currentStudents[i].id = ps.id
           idx == IndexOfId(newStudents, ps.id)
       IN SyncFoldWithMeals(currentStudents,
                            IF ~exists THEN Append(newStudents, ps)
                            ELSE [newStudents EXCEPT ![idx] = [@ EXCEPT !.name = ps.name]],
                            Tail(prevStudents))

syncStudentsWithMeals(prev, prevStudents) == SyncFoldWithMeals(prev, prev, prevStudents)

syncStudents(prev, prevStudents) == SyncFold(prev, prev, prevStudents)

\* ------------------------------------------------------------------- state

VARIABLES
  booted,            \* getSession() of the mount effect has resolved (line 109)
  user,              \* useState user (line 59): NoUser or the owner's id
  loading,           \* useState loading (line 60)
  saving,            \* useState saving (line 61)
  month, year,       \* useState month, year (lines 65-66)
  ledger,            \* schoolName, className, teacherName, location, students,
                     \* standardMeals (lines 63-70)
  studentsIsInitial, \* students is the INITIAL_STUDENTS array itself (line 55)
  isDirty,           \* isDirty.current (line 105)
  timer,             \* the pending auto-save timeout with the handleSave it closes over
  upserts,           \* upserts in flight, each with the code awaiting it
  fetches,           \* fetchData runs in flight
  syncs,             \* syncFromPreviousMonth lookups in flight
  store,             \* the rows of monthly_sheets
  nEvents, nFail,    \* events and I/O failures so far
  edited,            \* the roster or header was edited by hand since it was last loaded
  ev,                \* the step last taken
  clipboard,         \* useState clipboard (line 80): empty for null, or the copied meals
  columnClipboard,   \* useState columnClipboard (line 81): empty for null, or the values
  trail,             \* the last two roster commands with the roster each was given,
                     \* emptied when the roster is loaded, seeded or synced
  jsonData,          \* the rows read from the file last uploaded (line 524)
  workbook           \* the sheets of the workbook last exported (lines 638, 899-902)

vars == <<booted, user, loading, saving, month, year, ledger, studentsIsInitial,
          isDirty, timer, upserts, fetches, syncs, store, nEvents, nFail, edited, ev,
          clipboard, columnClipboard, trail, jsonData, workbook>>

files == <<jsonData, workbook>>

aux == <<clipboard, columnClipboard, trail, files>>

InitialLedger ==
  [schoolName |-> DefaultSchoolName, className |-> DefaultClassName,
   teacherName |-> DefaultTeacherName, location |-> DefaultLocation,
   students |-> INITIAL_STUDENTS, standardMeals |-> DefaultStandardMeals]

\* A roster saved in an earlier session: one student with a mark, the class name
\* left empty.
EarlierLedger ==
  [InitialLedger EXCEPT
     !.className = "",
     !.students = <<[id |-> "a", name |-> "Linh",
                     meals |-> SetDay(EmptyMealData, 1, [NoMeals EXCEPT !.S = TRUE])]>>]

\* The month before (m, y).
PrevOf(m, y) == IF m = 0 THEN <<11, y - 1>> ELSE <<m - 1, y>>

\* The tables the session can start from: nothing saved, the month before saved,
\* or the month before and the selected month saved.
InitStores(m, y) ==
  LET p == PrevOf(m, y)
  IN { {},
       {RowOf(Owner, p[1], p[2], EarlierLedger)},
       {RowOf(Owner, p[1], p[2], EarlierLedger), RowOf(Owner, m, y, EarlierLedger)} }

FreeId(S) == CHOOSE n \in 1..(Cardinality(S) + 1) : \A r \in S : r.rid # n

\* The component as mounted: useState initial values, loading true, no session yet.
Init ==
  /\ booted = FALSE
  /\ user = NoUser
  /\ loading = TRUE
  /\ saving = FALSE
  /\ \E d \in InitDates : /\ month = d[1]
                          /\ year = d[2]
                          /\ store \in InitStores(d[1], d[2])
  /\ ledger = InitialLedger
  /\ studentsIsInitial = TRUE
  /\ isDirty = FALSE
  /\ timer = {}
  /\ upserts = {}
  /\ fetches = {}
  /\ syncs = {}
  /\ nEvents = 0
  /\ nFail = 0
  /\ edited = FALSE
  /\ ev = "mount"
  /\ clipboard = {}
  /\ columnClipboard = {}
  /\ trail = << >>
  /\ jsonData = << >>
  /\ workbook = << >>

\* -------------------------------------------------------- render and effects

\* The closure of handleSave made by a render (useCallback, line 161).
SaveClosure(u, m, y, L) == [user |-> u, month |-> m, year |-> y, ledger |-> L]

\* Mutant: the effect has no cleanup, a timer armed earlier stays pending.
AutoSaveEffectNoCleanup(depsChanged, ld, dirtyIn, closure) ==
  IF depsChanged /\ ~ld /\ dirtyIn THEN timer \cup {closure} ELSE timer

\* Auto-save effect (lines 164-172), run after a render when one of its
\* dependencies changed: it reads isDirty.current as the handler left it.
AutoSaveEffect(depsChanged, ld, dirtyIn, closure) ==
  IF depsChanged
  THEN IF ld \/ ~dirtyIn THEN {} ELSE {closure}
  ELSE timer

\* Mark-dirty effect (lines 175-179), run when a ledger field changed.
MarkDirtyEffect(ledgerChanged, ld, dirtyIn) ==
  IF ledgerChanged /\ ~ld THEN TRUE ELSE dirtyIn

\* One render with the state (u, m, y, L, ld) the handler set, and its effects.
\* userChanged, ledgerChanged: a dependency changed identity; dirtyIn: the ref
\* as the handler left it; sInit: students is INITIAL_STUDENTS itself.
Render(u, userChanged, m, y, L, ledgerChanged, sInit, ld, dirtyIn, fs) ==
  LET saveChanged == userChanged \/ m # month \/ y # year \/ ledgerChanged
      autoChanged == saveChanged \/ ld # loading
      fetchRun == (userChanged \/ m # month \/ y # year) /\ u # NoUser
      timer1 == AutoSaveEffect(autoChanged, ld, dirtyIn, SaveClosure(u, m, y, L))
  IN /\ user' = u
     /\ month' = m
     /\ year' = y
     /\ ledger' = L
     /\ studentsIsInitial' = sInit
     /\ isDirty' = MarkDirtyEffect(ledgerChanged, ld, dirtyIn)
     \* fetch effect (lines 183-243): fetchData sets loading, which renders again
     \* and runs the auto-save effect's cleanup
     /\ loading' = (fetchRun \/ ld)
     /\ timer' = IF fetchRun THEN {} ELSE timer1
     /\ fetches' = IF fetchRun
                   THEN fs \cup {[rid |-> FreeId(fs), user |-> u, month |-> m,
                                  year |-> y, stage |-> "data", error |-> FALSE]}
                   ELSE fs

\* A render after a change of the students (or another ledger field) alone.
RenderLedger(L, sInit, dirtyIn) ==
  Render(user, FALSE, month, year, L, TRUE, sInit, loading, dirtyIn, fetches)

\* A render in which no dependency of an effect changed.
RenderSame(dirtyIn) ==
  Render(user, FALSE, month, year, ledger, FALSE, studentsIsInitial, loading, dirtyIn,
         fetches)

\* ------------------------------------------------------------ auth (107-131)

\* getSession().then: setUser(session?.user ?? null); setLoading(false).
SessionResolved ==
  /\ ~booted
  /\ booted' = TRUE
  /\ \E u \in {NoUser, Owner} :
       Render(u, u # NoUser \/ user # NoUser, month, year, ledger, FALSE,
              studentsIsInitial, FALSE, isDirty, fetches)
  /\ ev' = "session"
  /\ UNCHANGED <<saving, upserts, syncs, store, nEvents, nFail, edited, aux>>

\* onAuthStateChange: a sign-in or a refreshed session brings a new user object,
\* SIGNED_OUT brings null.  The listener's first event carries the session that
\* getSession resolves with, so the events modelled are those after it.
AuthStateChange ==
  /\ booted
  /\ nEvents < MaxEvents
  /\ nEvents' = nEvents + 1
  /\ \E u \in {NoUser, Owner} :
       Render(u, u # NoUser \/ user # NoUser, month, year, ledger, FALSE,
              studentsIsInitial, loading, isDirty, fetches)
  /\ ev' = "auth"
  /\ UNCHANGED <<booted, saving, upserts, syncs, store, nFail, edited, aux>>

\* ----------------------------------------------------------------- editing

\* The screen is shown: neither "Dang tai..." (line 252) nor Login (line 256).
Shown == user # NoUser /\ ~loading

Edit(L, sInit) ==
  /\ Shown
  /\ nEvents < MaxEvents
  /\ nEvents' = nEvents + 1
  /\ RenderLedger(L, sInit, isDirty)
  /\ edited' = TRUE
  /\ ev' = "edit"
  /\ UNCHANGED <<booted, saving, upserts, syncs, store, nFail, clipboard, columnClipboard, files>>

ToggleMeal ==
  \E i \in DOMAIN ledger.students, day \in EditDays, meal \in EditMeals :
    /\ Edit([ledger EXCEPT !.students = toggleMeal(@, ledger.students[i].id, day, meal)], FALSE)
    /\ UNCHANGED trail

UpdateStudentName ==
  \E i \in DOMAIN ledger.students, n \in TypedNames :
    /\ n # ledger.students[i].name
    /\ Edit([ledger EXCEPT !.students = updateStudentName(@, ledger.students[i].id, n)], FALSE)
    /\ UNCHANGED trail

\* generateId (line 53) draws the id at random.
AddStudent ==
  \E newId \in StudentIds :
    /\ Len(ledger.students) < MaxStudents
    /\ Edit([ledger EXCEPT !.students = addStudent(@, newId)], FALSE)
    /\ UNCHANGED trail

RemoveStudent ==
  \E i \in DOMAIN ledger.students :
    /\ Edit([ledger EXCEPT !.students = removeStudent(@, ledger.students[i].id)], FALSE)
    /\ UNCHANGED trail

\* setClassName(e.target.value) (lines 937, 1379); the other header fields alike.
SetClassName ==
  \E v \in TypedHeaders :
    /\ v # ledger.className
    /\ Edit([ledger EXCEPT !.className = v], studentsIsInitial)
    /\ UNCHANGED trail

\* ------------------------------------------------------ saving (134-172)

NoCont == [kind |-> "none", month |-> 0, newYear |-> 0]

\* handleSave up to its await: the upsert of the closure's state, with the code
\* that awaits handleSave.
IssueUpsert(c, cont) ==
  upserts' = upserts \cup {[rid |-> FreeId(upserts),
                            row |-> RowOf(c.user, c.month, c.year, c.ledger),
                            cont |-> cont]}

CurrentClosure == SaveClosure(user, month, year, ledger)

\* The "Luu du lieu" button (line 1305): handleSave(), disabled while saving.
ExplicitSave ==
  /\ Shown
  /\ ~saving
  /\ nEvents < MaxEvents
  /\ nEvents' = nEvents + 1
  /\ saving' = TRUE
  /\ IssueUpsert(CurrentClosure, [NoCont EXCEPT !.kind = "explicit"])
  /\ ev' = "save"
  /\ UNCHANGED <<booted, user, loading, month, year, ledger, studentsIsInitial, isDirty,
                 timer, fetches, syncs, store, nFail, edited, aux>>

\* The auto-save timeout fires (line 168): handleSave(true) of the render that
\* armed it; handleSave returns at once without a user (line 135).
AutoSaveFires ==
  \E c \in timer :
    /\ timer' = {}
    /\ IF c.user = NoUser THEN UNCHANGED upserts ELSE IssueUpsert(c, NoCont)
    /\ ev' = "timer"
    /\ UNCHANGED <<booted, user, loading, saving, month, year, ledger, studentsIsInitial,
                   isDirty, fetches, syncs, store, nEvents, nFail, edited, aux>>

\* ------------------------------------------------- navigation (245-285)

\* What follows the flush: setMonth/setYear of prevMonth, nextMonth and
\* handleYearChange (the test reads the handler's own month, the updaters the
\* current state), signOut of handleLogout.
AfterFlush(cont, dirtyIn) ==
  LET k == cont.kind
      m == CASE k = "prevMonth" -> IF cont.month = 0 THEN 11 ELSE month - 1
             [] k = "nextMonth" -> IF cont.month = 11 THEN 0 ELSE month + 1
             [] OTHER -> month
      y == CASE k = "prevMonth" -> IF cont.month = 0 THEN year - 1 ELSE year
             [] k = "nextMonth" -> IF cont.month = 11 THEN year + 1 ELSE year
             [] k = "handleYearChange" -> cont.newYear
             [] OTHER -> year
      u == IF k = "handleLogout" THEN NoUser ELSE user
  IN Render(u, u # user, m, y, ledger, FALSE, studentsIsInitial, loading, dirtyIn, fetches)

\* Mutant: the flush is sent and not awaited.
NavigateWithoutAwait(kind, newYear) ==
  LET cont == [kind |-> kind, month |-> month, newYear |-> newYear]
  IN /\ Shown
     /\ nEvents < MaxEvents
     /\ nEvents' = nEvents + 1
     /\ AfterFlush(cont, isDirty)
     /\ ev' = "navigated"
     /\ IF isDirty THEN IssueUpsert(CurrentClosure, NoCont) ELSE UNCHANGED upserts
     /\ UNCHANGED <<booted, saving, syncs, store, nFail, edited, aux>>

\* prevMonth, nextMonth, handleYearChange, handleLogout: if (isDirty.current)
\* await handleSave(true); then the change.
Navigate(kind, newYear) ==
  LET cont == [kind |-> kind, month |-> month, newYear |-> newYear]
  IN /\ Shown
     /\ nEvents < MaxEvents
     /\ nEvents' = nEvents + 1
     /\ IF isDirty
        THEN /\ IssueUpsert(CurrentClosure, cont)
             /\ ev' = "flush"
             /\ UNCHANGED <<user, loading, month, year, ledger, studentsIsInitial,
                            isDirty, timer, fetches>>
        ELSE /\ AfterFlush(cont, isDirty)
             /\ ev' = "navigated"
             /\ UNCHANGED upserts
     /\ UNCHANGED <<booted, saving, syncs, store, nFail, edited, aux>>

PrevMonth == Navigate("prevMonth", 0)
NextMonth == Navigate("nextMonth", 0)
HandleYearChange == \E newYear \in TypedYears : Navigate("handleYearChange", newYear)
HandleLogout == Navigate("handleLogout", 0)

\* The upsert's response (lines 153-160), then the code awaiting handleSave.
UpsertResponds(r, ok) ==
  /\ upserts' = upserts \ {r}
  /\ store' = IF ok THEN UpsertInto(store, r.row) ELSE store
  /\ saving' = IF r.cont.kind = "explicit" THEN FALSE ELSE saving
  /\ AfterFlush(r.cont, IF ok THEN FALSE ELSE isDirty)
  /\ UNCHANGED <<booted, syncs, nEvents, edited, aux>>

UpsertSucceeds ==
  \E r \in upserts :
    /\ UpsertResponds(r, TRUE)
    /\ ev' = IF r.cont.kind \in {"none", "explicit"} THEN "saved" ELSE "savedNavigated"
    /\ UNCHANGED nFail

UpsertFails ==
  \E r \in upserts :
    /\ nFail < MaxFail
    /\ nFail' = nFail + 1
    /\ UpsertResponds(r, FALSE)
    /\ ev' = IF r.cont.kind \in {"none", "explicit"} THEN "saveFailed"
             ELSE "saveFailedNavigated"

\* ---------------------------------------------------- fetchData (186-240)

\* The first select answers: a row (lines 200-207), or none, or an error, which
\* is logged (lines 196-198) and leaves data null; without data the lookup of
\* the latest earlier row is sent (line 210).
DataLoaded(f) ==
  \E data \in SelectKey(store, f.user, f.month, f.year) :
    /\ Render(user, FALSE, month, year, LoadedLedger(data), TRUE, FALSE, FALSE, FALSE,
              fetches \ {f})
    /\ edited' = FALSE
    /\ trail' = << >>
    /\ ev' = "loaded"
    /\ UNCHANGED nFail

DataMissing(f) ==
  /\ \/ /\ SelectKey(store, f.user, f.month, f.year) = {}
        /\ fetches' = (fetches \ {f}) \cup {[f EXCEPT !.stage = "latest"]}
        /\ ev' = "notFound"
        /\ UNCHANGED nFail
     \/ /\ nFail < MaxFail
        /\ nFail' = nFail + 1
        /\ fetches' = (fetches \ {f}) \cup {[f EXCEPT !.stage = "latest", !.error = TRUE]}
        /\ ev' = "fetchFailed"
  /\ UNCHANGED <<user, loading, month, year, ledger, studentsIsInitial, isDirty, timer,
                 edited, trail>>

FetchDataAnswers ==
  \E f \in fetches :
    /\ f.stage = "data"
    /\ DataLoaded(f) \/ DataMissing(f)
    /\ UNCHANGED <<booted, saving, upserts, syncs, store, nEvents, clipboard, columnClipboard, files>>

\* Mutant: the seeded ledger is not marked dirty.
SeededNotMarked(f, latestData) ==
  /\ Render(user, FALSE, month, year, SeededLedger(latestData), TRUE, FALSE, FALSE, FALSE,
            fetches \ {f})
  /\ edited' = FALSE
  /\ trail' = << >>
  /\ ev' = "seeded"

\* The lookup answers: latestData (lines 220-233), or nothing (lines 235-236);
\* its error is not read, and leaves latestData null.
Seeded(f, latestData) ==
  /\ Render(user, FALSE, month, year, SeededLedger(latestData), TRUE, FALSE, FALSE, TRUE,
            fetches \ {f})
  /\ edited' = FALSE
  /\ trail' = << >>
  /\ ev' = "seeded"

StartsEmpty(f) ==
  /\ Render(user, FALSE, month, year, [ledger EXCEPT !.students = INITIAL_STUDENTS],
            ~studentsIsInitial, TRUE, FALSE, FALSE, fetches \ {f})
  /\ edited' = FALSE
  /\ trail' = << >>
  /\ ev' = "empty"

FetchLatestAnswers ==
  \E f \in fetches :
    /\ f.stage = "latest"
    /\ LET found == LatestBefore(store, f.user, f.month, f.year)
       IN \/ /\ \E latestData \in found : Seeded(f, latestData)
             /\ UNCHANGED nFail
          \/ /\ found = {}
             /\ StartsEmpty(f)
             /\ UNCHANGED nFail
          \/ /\ nFail < MaxFail
             /\ nFail' = nFail + 1
             /\ StartsEmpty(f)
    /\ UNCHANGED <<booted, saving, upserts, syncs, store, nEvents, clipboard, columnClipboard, files>>

\* ------------------------------------------ syncFromPreviousMonth (452-489)

SyncFromPreviousMonth ==
  /\ Shown
  /\ nEvents < MaxEvents
  /\ nEvents' = nEvents + 1
  /\ syncs' = syncs \cup {[rid |-> FreeId(syncs), user |-> user, month |-> month,
                           year |-> year]}
  /\ ev' = "sync"
  /\ UNCHANGED <<booted, user, loading, saving, month, year, ledger, studentsIsInitial,
                 isDirty, timer, upserts, fetches, store, nFail, edited, aux>>

SyncAnswers ==
  \E q \in syncs :
    /\ syncs' = syncs \ {q}
    /\ LET found == LatestBefore(store, q.user, q.month, q.year)
       IN \/ /\ \E latestData \in found :
                  RenderLedger([ledger EXCEPT !.students =
                                  syncStudents(@, latestData.students)], FALSE, isDirty)
             /\ ev' = "synced"
             /\ UNCHANGED nFail
          \/ /\ found = {}
             /\ RenderSame(isDirty)
             /\ ev' = "nothingToSync"
             /\ UNCHANGED nFail
          \/ /\ nFail < MaxFail
             /\ nFail' = nFail + 1
             /\ RenderSame(isDirty)
             /\ ev' = "nothingToSync"
    /\ trail' = << >>
    /\ UNCHANGED <<booted, saving, upserts, store, nEvents, edited, clipboard, columnClipboard, files>>

\* -------------------------------------------------------------------- spec

Next ==
  \/ SessionResolved
  \/ AuthStateChange
  \/ ToggleMeal
  \/ UpdateStudentName
  \/ AddStudent
  \/ RemoveStudent
  \/ SetClassName
  \/ ExplicitSave
  \/ AutoSaveFires
  \/ PrevMonth
  \/ NextMonth
  \/ HandleYearChange
  \/ HandleLogout
  \/ UpsertSucceeds
  \/ UpsertFails
  \/ FetchDataAnswers
  \/ FetchLatestAnswers
  \/ SyncFromPreviousMonth
  \/ SyncAnswers

Spec == Init /\ [][Next]_vars

\* The timeout fires once its delay has passed, and an upsert that can succeed
\* is answered.
FairSpec == Spec /\ WF_vars(AutoSaveFires) /\ WF_vars(UpsertSucceeds)

\* ------------------------------------------- rollover and sync on rosters

\* Rosters of the saved rows the rollover and the sync are run on.
MaxRoster == 2

RosterIds == {"a", "b", "c"}
SeqsUpTo(S, n) == UNION {[1..k -> S] : k \in 0..n}

\* Marks a student of the earlier month holds: none, one meal, a whole day.
EarlierMeals(id) ==
  CASE id = "a" -> SetDay(EmptyMealData, 1, [NoMeals EXCEPT !.S = TRUE])
    [] id = "b" -> EmptyMealData
    [] OTHER -> SetDay(EmptyMealData, 2, [S |-> TRUE, T1 |-> TRUE, T2 |-> TRUE])

EarlierStudents ==
  {[id |-> i, name |-> n, meals |-> EarlierMeals(i)] : i \in RosterIds, n \in {"Linh Nguyen", "Mai"}}

SelectedStudents ==
  {[id |-> i, name |-> "Linh", meals |-> m] :
     i \in RosterIds, m \in {EmptyMealData, SetDay(EmptyMealData, 1, [NoMeals EXCEPT !.T1 = TRUE])}}

SavedHeaders ==
  {[InitialLedger EXCEPT !.schoolName = sn, !.className = cn, !.teacherName = tn,
                         !.location = lo, !.standardMeals = sm] :
     sn \in {"", DefaultSchoolName}, cn \in {"", "9A"}, tn \in {"", "Co Hoa"},
     lo \in {"", "Son La"}, sm \in {DefaultStandardMeals, [S |-> 0, T1 |-> 20, T2 |-> 20]}}

\* The tables: the month before alone, under any header; or the month before
\* and the selected month, under any two rosters.
RollStores(m, y) ==
  LET p == PrevOf(m, y)
  IN {{RowOf(Owner, p[1], p[2], [h EXCEPT !.students = r])} :
         h \in SavedHeaders, r \in SeqsUpTo(EarlierStudents, MaxRoster)}
     \cup
     {{RowOf(Owner, p[1], p[2], [InitialLedger EXCEPT !.students = r]),
       RowOf(Owner, m, y, [InitialLedger EXCEPT !.students = c])} :
         r \in SeqsUpTo(EarlierStudents, MaxRoster),
         c \in SeqsUpTo(SelectedStudents, MaxRoster)}

\* The session is resolved and the first fetchData is in flight; one event of
\* the run is left (the sync command) and every request is answered.
InitRoll ==
  /\ booted = TRUE
  /\ user = Owner
  /\ loading = TRUE
  /\ saving = FALSE
  /\ \E d \in InitDates : /\ month = d[1]
                          /\ year = d[2]
                          /\ store \in RollStores(d[1], d[2])
                          /\ fetches = {[rid |-> 1, user |-> Owner, month |-> d[1],
                                         year |-> d[2], stage |-> "data", error |-> FALSE]}
  /\ ledger = InitialLedger
  /\ studentsIsInitial = TRUE
  /\ isDirty = FALSE
  /\ timer = {}
  /\ upserts = {}
  /\ syncs = {}
  /\ nEvents = MaxEvents - 1
  /\ nFail = MaxFail
  /\ edited = FALSE
  /\ ev = "session"
  /\ clipboard = {}
  /\ columnClipboard = {}
  /\ trail = << >>
  /\ jsonData = << >>
  /\ workbook = << >>

NextRoll ==
  \/ FetchDataAnswers
  \/ FetchLatestAnswers
  \/ SyncFromPreviousMonth
  \/ SyncAnswers
  \/ AutoSaveFires
  \/ UpsertSucceeds

SpecRoll == InitRoll /\ [][NextRoll]_vars

\* ------------------------------------------------ commands on the roster

\* Days and meals the commands are clicked on, and the rosters they meet.
CmdDays == {1, 31}
CmdMeals == {"S", "T2"}

AllSet == [S |-> TRUE, T1 |-> TRUE, T2 |-> TRUE]

\* Marks held before: a Monday (1), a Friday with an entry of three false flags
\* (5), a Saturday (6), a Friday evening (12), the last day of January (31).
MarkedMeals ==
  SetDay(SetDay(SetDay(SetDay(EmptyMealData, 1, [NoMeals EXCEPT !.S = TRUE]),
                       6, [NoMeals EXCEPT !.T2 = TRUE]),
                12, [NoMeals EXCEPT !.T2 = TRUE]),
         31, AllSet)

SparseMeals == SetDay(SetDay(EmptyMealData, 1, [NoMeals EXCEPT !.T1 = TRUE]), 5, NoMeals)

CmdStudents ==
  {[id |-> "a", name |-> "An", meals |-> MarkedMeals],
   [id |-> "a", name |-> "An", meals |-> EmptyMealData],
   [id |-> "b", name |-> "Binh", meals |-> SparseMeals],
   [id |-> "b", name |-> "Binh", meals |-> EmptyMealData],
   [id |-> "c", name |-> "Chi", meals |-> EmptyMealData]}

CmdRosters ==
  {r \in SeqsUpTo(CmdStudents, MaxRoster) :
     \A i, j \in DOMAIN r : r[i].id = r[j].id => i = j}

\* The roster saved for the month before: b under a longer name, and d.
PriorRoster ==
  <<[id |-> "b", name |-> "Binh Tran", meals |-> SetDay(EmptyMealData, 2, AllSet)],
    [id |-> "d", name |-> "Dung", meals |-> EmptyMealData]>>

CmdStores(m, y) ==
  LET p == PrevOf(m, y)
  IN {{RowOf(Owner, p[1], p[2], [InitialLedger EXCEPT !.students = PriorRoster]),
       RowOf(Owner, m, y, [InitialLedger EXCEPT !.students = r])} : r \in CmdRosters}

\* The days of the table's header (lines 87-100): 1..daysInMonth.
ShownDays == 1..getDaysInMonth(month, year)

NoArg == [id |-> "", day |-> 0, meal |-> ""]

\* The trail with one more command.
Logged(op, a) ==
  LET e == [op |-> op, id |-> a.id, day |-> a.day, meal |-> a.meal,
            before |-> ledger.students]
  IN IF trail = << >> THEN <<e>> ELSE <<trail[Len(trail)], e>>

\* A command that sets the students: setStudents, the render, its effects.
Command(op, a, students) ==
  /\ Edit([ledger EXCEPT !.students = students], FALSE)
  /\ trail' = Logged(op, a)

\* A command that sets a clipboard: a render in which no effect runs.
Copied(op, a) ==
  /\ Shown
  /\ nEvents < MaxEvents
  /\ nEvents' = nEvents + 1
  /\ trail' = Logged(op, a)
  /\ ev' = "copy"
  /\ UNCHANGED <<booted, user, loading, saving, month, year, ledger, studentsIsInitial,
                 isDirty, timer, upserts, fetches, syncs, store, nFail, edited>>

ToggleMealOn ==
  \E i \in DOMAIN ledger.students, day \in CmdDays \cap ShownDays, meal \in CmdMeals :
    LET id == ledger.students[i].id
    IN Command("toggleMeal", [id |-> id, day |-> day, meal |-> meal],
               toggleMeal(ledger.students, id, day, meal))

CopyMeals ==
  \E i \in DOMAIN ledger.students :
    /\ clipboard' = {ledger.students[i].meals}
    /\ Copied("copyMeals", [NoArg EXCEPT !.id = ledger.students[i].id])
    /\ UNCHANGED <<columnClipboard, files>>

PasteMeals ==
  \E i \in DOMAIN ledger.students, clip \in clipboard :
    LET id == ledger.students[i].id
    IN Command("pasteMeals", [NoArg EXCEPT !.id = id], pasteMeals(ledger.students, id, clip))

PasteToAll ==
  \E clip \in clipboard :
    Command("pasteToAll", NoArg, pasteToAll(ledger.students, clip))

CopyColumn ==
  \E day \in CmdDays \cap ShownDays, meal \in CmdMeals :
    /\ columnClipboard' = {copyColumn(ledger.students, day, meal)}
    /\ Copied("copyColumn", [NoArg EXCEPT !.day = day, !.meal = meal])
    /\ UNCHANGED <<clipboard, files>>

PasteColumn ==
  \E day \in CmdDays \cap ShownDays, meal \in CmdMeals, values \in columnClipboard :
    Command("pasteColumn", [NoArg EXCEPT !.day = day, !.meal = meal],
            pasteColumn(ledger.students, day, meal, values))

FillColumn ==
  \E day \in CmdDays \cap ShownDays, meal \in CmdMeals :
    Command("fillColumn", [NoArg EXCEPT !.day = day, !.meal = meal],
            fillColumn(ledger.students, day, meal))

ClearColumn ==
  \E day \in CmdDays \cap ShownDays, meal \in CmdMeals :
    Command("clearColumn", [NoArg EXCEPT !.day = day, !.meal = meal],
            clearColumn(ledger.students, day, meal))

ClearDay ==
  \E day \in CmdDays \cap ShownDays :
    Command("clearDay", [NoArg EXCEPT !.day = day], clearDay(ledger.students, day))

ClearMonth == Command("clearMonth", NoArg, clearMonth(ledger.students))

ClearAllStudents == Command("clearAllStudents", NoArg, clearAllStudents)

AutoFillMeals == Command("autoFillMeals", NoArg, autoFillMeals(ledger.students, month, year))

\* The session is resolved and the first fetchData is in flight; left events of
\* the run are to come (the count of events starts at MaxEvents - left), and
\* every request is answered.
InitLoadingAt(dates, left) ==
  /\ booted = TRUE
  /\ user = Owner
  /\ loading = TRUE
  /\ saving = FALSE
  /\ \E d \in dates : /\ month = d[1]
                      /\ year = d[2]
                      /\ store \in CmdStores(d[1], d[2])
                      /\ fetches = {[rid |-> 1, user |-> Owner, month |-> d[1],
                                     year |-> d[2], stage |-> "data", error |-> FALSE]}
  /\ ledger = InitialLedger
  /\ studentsIsInitial = TRUE
  /\ isDirty = FALSE
  /\ timer = {}
  /\ upserts = {}
  /\ syncs = {}
  /\ nEvents = MaxEvents - left
  /\ nFail = MaxFail
  /\ edited = FALSE
  /\ ev = "session"
  /\ clipboard = {}
  /\ columnClipboard = {}
  /\ trail = << >>
  /\ jsonData = << >>
  /\ workbook = << >>

InitLoading(left) == InitLoadingAt(InitDates, left)

\* Two commands on the loaded roster.
InitCmd == InitLoading(2)

NextCmd ==
  \/ FetchDataAnswers
  \/ ToggleMealOn
  \/ CopyMeals
  \/ PasteMeals
  \/ PasteToAll
  \/ CopyColumn
  \/ PasteColumn
  \/ FillColumn
  \/ ClearColumn
  \/ ClearDay
  \/ ClearMonth
  \/ ClearAllStudents
  \/ AutoFillMeals
  \/ SyncFromPreviousMonth
  \/ SyncAnswers

SpecCmd == InitCmd /\ [][NextCmd]_vars

\* A copy, a change of month and a paste: the clipboards outlive the month.
InitClip == InitLoading(3)

NextClip ==
  \/ FetchDataAnswers
  \/ FetchLatestAnswers
  \/ CopyMeals
  \/ PasteMeals
  \/ PasteToAll
  \/ CopyColumn
  \/ PasteColumn
  \/ NextMonth
  \/ UpsertSucceeds

SpecClip == InitClip /\ [][NextClip]_vars

\* ------------------------------------------------------------------ import
\* handleFileUpload (lines 515-633). A cell of the sheet is undefined, a number
\* or a string; of a string the model keeps its text, the text trimmed, and
\* what the code asks of it: header is "the lower-cased text includes one of
\* headerKeywords" (line 549), skip is "the lower-cased trimmed text includes
\* one of skipKeywords" (line 610), numeric is !isNaN(Number(text)) (line 568).
\* Columns and rows are counted from 1; 0 stands for the code's -1.
HeaderRows == 20
StatRows == 50

Cell(kind, raw, trimmed, is) ==
  [kind |-> kind, raw |-> raw, trimmed |-> trimmed, header |-> "header" \in is,
   skip |-> "skip" \in is, numeric |-> "numeric" \in is]

Undefined == Cell("undefined", "", "", {})

\* The sheets a user uploads.
ImportSheets ==
  { << >>,
    \* a header row, names with blanks around them, a short name, a footer
    << <<Cell("string", "STT", "STT", {"skip"}), Cell("string", "Ho va ten", "Ho va ten", {"header"}), Cell("string", "Ghi chu", "Ghi chu", {})>>,
       <<Cell("number", "1", "1", {"numeric"}), Cell("string", "  Lan Anh ", "Lan Anh", {})>>,
       <<Cell("number", "2", "2", {"numeric"}), Cell("string", "Vy", "Vy", {})>>,
       << >>,
       <<Cell("number", "3", "3", {"numeric"}), Cell("string", "Minh", "Minh", {}), Cell("string", "Chuyen den", "Chuyen den", {})>>,
       <<Undefined, Cell("string", "Tong cong", "Tong cong", {"skip"})>> >>,
    \* no header: the column with the most strings longer than three
    << <<Cell("number", "1", "1", {"numeric"}), Cell("string", "Tran Binh", "Tran Binh", {}), Cell("string", "Nam", "Nam", {})>>,
       <<Cell("number", "2", "2", {"numeric"}), Cell("string", "Le Chi", "Le Chi", {}), Cell("string", "Nu", "Nu", {})>>,
       <<Cell("string", "2024", "2024", {"numeric"}), Undefined, Cell("string", "ghi chu", "ghi chu", {})>> >>,
    \* numbers and short strings only: no column is found
    << <<Cell("number", "1", "1", {"numeric"}), Cell("string", "12345", "12345", {"numeric"})>>,
       <<Cell("number", "2", "2", {"numeric"}), Cell("string", "Vy", "Vy", {})>> >>,
    \* a header over names that are all rejected
    << <<Cell("string", "Hoc sinh", "Hoc sinh", {"header"})>>,
       <<Cell("string", "Vy", "Vy", {})>>,
       <<Cell("string", "Lop 5A", "Lop 5A", {"skip"})>>,
       <<Cell("number", "7", "7", {"numeric"})>> >> }

CellAt(row, idx) == IF idx \in DOMAIN row THEN row[idx] ELSE Undefined

\* row.findIndex(cell => typeof cell === 'string' && headerKeywords.some(...))
RECURSIVE FindHeaderIndex(_, _)
FindHeaderIndex(row, idx) ==
  IF idx > Len(row) THEN 0
  ELSE IF row[idx].kind = "string" /\ row[idx].header THEN idx
  ELSE FindHeaderIndex(row, idx + 1)

\* 1. the header row among the first 20 rows.
RECURSIVE HeaderFrom(_, _)
HeaderFrom(rows, i) ==
  IF i > Len(rows) \/ i > HeaderRows THEN [nameColIndex |-> 0, startRow |-> 1]
  ELSE LET idx == FindHeaderIndex(rows[i], 1)
       IN IF idx # 0 THEN [nameColIndex |-> idx, startRow |-> i + 1]
          ELSE HeaderFrom(rows, i + 1)

\* colStats[idx] over the first 50 rows.
RECURSIVE ColStat(_, _, _)
ColStat(rows, i, idx) ==
  IF i > Len(rows) \/ i > StatRows THEN 0
  ELSE LET cell == CellAt(rows[i], idx)
       IN ColStat(rows, i + 1, idx)
            + (IF cell.kind = "string" /\ Len(cell.trimmed) > 3 /\ ~cell.numeric
               THEN 1 ELSE 0)

RECURSIVE Width(_, _)
Width(rows, i) ==
  IF i > Len(rows) THEN 0
  ELSE LET w == Width(rows, i + 1) IN IF Len(rows[i]) > w THEN Len(rows[i]) ELSE w

\* The entries of colStats in ascending key order; count > maxCount keeps the
\* first column that has the largest count.
StatColumn(rows) ==
  LET cols == {c \in 1..Width(rows, 1) : ColStat(rows, 1, c) > 0}
  IN IF cols = {} THEN 0
     ELSE CHOOSE c \in cols :
            \A d \in cols : \/ ColStat(rows, 1, d) < ColStat(rows, 1, c)
                            \/ ColStat(rows, 1, d) = ColStat(rows, 1, c) /\ c <= d

\* the first row that has a string in the column (lines 584-590).
RECURSIVE FirstStringRow(_, _, _)
FirstStringRow(rows, i, idx) ==
  IF i > Len(rows) THEN 1
  ELSE IF CellAt(rows[i], idx).kind = "string" THEN i
  ELSE FirstStringRow(rows, i + 1, idx)

NameColumn(rows) ==
  LET h == HeaderFrom(rows, 1)
  IN IF h.nameColIndex # 0 THEN h
     ELSE LET c == StatColumn(rows)
          IN IF c = 0 THEN h
             ELSE [nameColIndex |-> c, startRow |-> FirstStringRow(rows, 1, c)]

\* The loop of lines 603-617: the trimmed names that pass the validation.
RECURSIVE NamesFrom(_, _, _)
NamesFrom(rows, i, idx) ==
  IF i > Len(rows) THEN << >>
  ELSE LET rawName == CellAt(rows[i], idx)
       IN (IF /\ rawName.kind = "string"
              /\ rawName.raw # ""
              /\ Len(rawName.trimmed) > 2
              /\ ~rawName.skip
           THEN <<rawName.trimmed>> ELSE << >>)
            \o NamesFrom(rows, i + 1, idx)

\* What the upload finds: "empty", "noColumn", "noNames", or the names.
Extracted(rows) ==
  IF Len(rows) = 0 THEN [found |-> "empty", names |-> << >>]
  ELSE LET c == NameColumn(rows)
       IN IF c.nameColIndex = 0 THEN [found |-> "noColumn", names |-> << >>]
          ELSE LET names == NamesFrom(rows, c.startRow, c.nameColIndex)
               IN [found |-> IF names = << >> THEN "noNames" ELSE "names",
                   names |-> names]

\* newStudents (lines 611-615): generateId draws each id.
newStudents(names, ids) ==
  [i \in DOMAIN names |-> [id |-> ids[i], name |-> names[i], meals |-> EmptyMealData]]

\* The upload ends without setStudents: an alert, or the confirm declined.
NotImported(rows, outcome) ==
  /\ Shown
  /\ nEvents < MaxEvents
  /\ nEvents' = nEvents + 1
  /\ jsonData' = rows
  /\ ev' = outcome
  /\ UNCHANGED <<booted, user, loading, saving, month, year, ledger, studentsIsInitial,
                 isDirty, timer, upserts, fetches, syncs, store, nFail, edited,
                 clipboard, columnClipboard, trail, workbook>>

ImportReported ==
  \E rows \in ImportSheets :
    /\ Extracted(rows).found # "names"
    /\ NotImported(rows, "importReported")

ImportDeclined ==
  \E rows \in ImportSheets :
    /\ Extracted(rows).found = "names"
    /\ NotImported(rows, "importDeclined")

\* confirm accepted: setStudents(newStudents), the render and its effects.
ImportAccepted ==
  \E rows \in ImportSheets :
    /\ Extracted(rows).found = "names"
    /\ \E ids \in [DOMAIN Extracted(rows).names -> StudentIds] :
         /\ Shown
         /\ nEvents < MaxEvents
         /\ nEvents' = nEvents + 1
         /\ RenderLedger([ledger EXCEPT !.students =
                            newStudents(Extracted(rows).names, ids)], FALSE, isDirty)
         /\ edited' = TRUE
         /\ ev' = "imported"
         /\ jsonData' = rows
         /\ trail' = << >>
         /\ UNCHANGED <<booted, saving, upserts, syncs, store, nFail, clipboard,
                        columnClipboard, workbook>>

InitImport == InitLoading(2)

NextImport ==
  \/ FetchDataAnswers
  \/ ToggleMealOn
  \/ ImportReported
  \/ ImportDeclined
  \/ ImportAccepted

SpecImport == InitImport /\ [][NextImport]_vars

\* ------------------------------------------------------------------ export
\* handleExportExcel (lines 637-907): the values createSheet puts in the cells
\* of the two sheets. Fonts, fills, borders and widths are left out; the texts
\* are written without their diacritics.
RECURSIVE DaysFrom(_, _)
DaysFrom(i, last) == IF i > last THEN << >> ELSE <<i>> \o DaysFrom(i + 1, last)

firstHalfDays == DaysFrom(1, 16)

\* Mutant: the second half starts at day 16.
secondHalfDaysFrom16(daysInMonth) == DaysFrom(16, daysInMonth)

secondHalfDays(daysInMonth) == DaysFrom(17, daysInMonth)

\* days.forEach(d => values.push(...f[d])), from the i-th day on
RECURSIVE ForEachDay(_, _, _)
ForEachDay(days, i, f) ==
  IF i > Len(days) THEN << >> ELSE f[days[i]] \o ForEachDay(days, i + 1, f)

DayKey(d, meal) == "d" \o ToString(d) \o "_" \o meal

Mark(b) == IF b THEN "+" ELSE ""

createSheet(sheetName, days, isSecondHalf) ==
  LET on == {days[i] : i \in DOMAIN days}
      cols ==
        <<"stt", "name">>
          \o ForEachDay(days, 1, [d \in on |-> <<DayKey(d, "S"), DayKey(d, "T1"), DayKey(d, "T2")>>])
          \o (IF isSecondHalf
              THEN <<"total_S", "total_T1", "total_T2", "u_S", "u_T1", "u_T2">>
              ELSE << >>)
      headerRow2Values ==
        <<"STT", "Ngay/Thu">>
          \o ForEachDay(days, 1, [d \in on |-> <<ToString(d), "", "">>])
          \o (IF isSecondHalf
              THEN <<"So ngay an trong thang", "", "", "", "", "">> ELSE << >>)
      headerRow3Values ==
        <<"", "">>
          \o ForEachDay(days, 1, [d \in on |-> <<getDayOfWeek(d, month, year), "", "">>])
          \o (IF isSecondHalf
              THEN <<"So ngay bao an", "", "", "So ngay khong bao an", "", "">>
              ELSE << >>)
      row4Vals ==
        <<"Ho va ten", "">>
          \o ForEachDay(days, 1, [d \in on |-> <<"S", "T", "T">>])
          \o (IF isSecondHalf THEN <<"S", "T", "T", "S", "T", "T">> ELSE << >>)
      rowValues(index) ==
        LET student == ledger.students[index]
            totals == calculateStudentTotals(student, ledger.standardMeals)
        IN <<index, student.name>>
             \o ForEachDay(days, 1,
                           [d \in on |-> LET meals == DayOf(student.meals, d)
                                         IN <<Mark(meals.S), Mark(meals.T1), Mark(meals.T2)>>])
             \o (IF isSecondHalf
                 THEN <<totals.S, totals.T1, totals.T2, totals.uS, totals.uT1, totals.uT2>>
                 ELSE << >>)
      totalRowValues ==
        <<"CONG", "">>
          \o ForEachDay(days, 1,
                        [d \in on |-> <<ToString(calculateDayTotals(ledger.students, d, "S")),
                                        ToString(calculateDayTotals(ledger.students, d, "T1")),
                                        ToString(calculateDayTotals(ledger.students, d, "T2"))>>])
          \o (IF isSecondHalf THEN <<"", "", "", "", "", "">> ELSE << >>)
  IN [name |-> sheetName,
      days |-> days,
      cols |-> cols,
      titleRow |-> <<"SO CHAM COM LOP: " \o ledger.className \o " THANG "
                       \o ToString(month + 1) \o "/" \o ToString(year)>>,
      titleMerge |-> Len(cols),
      headerRow2Values |-> headerRow2Values,
      headerRow3Values |-> headerRow3Values,
      row4Vals |-> row4Vals,
      rows |-> [index \in DOMAIN ledger.students |-> rowValues(index)],
      totalRowValues |-> totalRowValues,
      lastCol |-> IF isSecondHalf THEN 2 + Len(days) * 3 + 6 ELSE 2 + Len(days) * 3]

\* The export button: the two sheets are created from the state on screen; no
\* state of the component is set.
HandleExportExcel ==
  /\ Shown
  /\ workbook' = <<createSheet("Trang 1", firstHalfDays, FALSE),
                   createSheet("Trang 2", secondHalfDays(getDaysInMonth(month, year)), TRUE)>>
  /\ ev' = "export"
  /\ UNCHANGED <<booted, user, loading, saving, month, year, ledger, studentsIsInitial,
                 isDirty, timer, upserts, fetches, syncs, store, nEvents, nFail, edited,
                 clipboard, columnClipboard, trail, jsonData>>

\* Months of 31, 30, 29 and 28 days, January 2023, the February of 1900 and of
\* 2000, and a year below 100 typed into the year box (line 1270).
SheetDates == {<<0, 2024>>, <<3, 2024>>, <<1, 2024>>, <<1, 2023>>, <<0, 2023>>,
               <<1, 1900>>, <<1, 2000>>, <<0, 50>>}

InitSheet == InitLoadingAt(SheetDates, 2)

NextSheet ==
  \/ FetchDataAnswers
  \/ ToggleMealOn
  \/ AutoFillMeals
  \/ HandleExportExcel

SpecSheet == InitSheet /\ [][NextSheet]_vars

\* A copy, changes of the roster and a paste: up to four steps.
InitPaste == InitLoading(4)

NextPaste ==
  \/ FetchDataAnswers
  \/ CopyMeals
  \/ PasteMeals
  \/ CopyColumn
  \/ PasteColumn
  \/ ToggleMealOn
  \/ AddStudent
  \/ RemoveStudent

SpecPaste == InitPaste /\ [][NextPaste]_vars

\* ------------------------------------------------------------------ claims

NavKinds == {"prevMonth", "nextMonth", "handleYearChange", "handleLogout"}

\* The row the in-memory ledger would be saved as under the selected key.
CurrentRow == RowOf(user, month, year, ledger)

\* C1: provided every upsert succeeds, when navigation or logout takes the
\* editor away from (month, year), the row persisted for (month, year) holds
\* every edit made to that ledger before the switch.
C1_NoEditLostByNavigation ==
  [][(/\ nFail' = 0
      /\ ev' \in {"navigated", "savedNavigated"}
      /\ (month' # month \/ year' # year \/ user' # user)
      /\ edited)
     => CurrentRow \in store']_vars

\* C2: every mutation of the loaded ledger leaves a debounced auto-save pending
\* that carries it (so that, left alone, the upsert is issued).
C2_MutationArmsAutoSave == (ev = "edit" /\ nFail = 0) => (timer = {CurrentClosure})

\* C3: the dirty flag goes from true to false only when an upsert of the current
\* ledger completes successfully.
C3_DirtyClearedOnlyBySave ==
  [][(isDirty /\ ~isDirty')
     => (/\ ev' \in {"saved", "savedNavigated"}
         /\ \E r \in upserts \ upserts' : r.row = RowOf(r.row.user_id, month, year, ledger))]_vars

\* C4: a navigation or logout invoked while dirty issues an upsert of the
\* current ledger under the current key and changes nothing else; the selected
\* (month, year) changes, or the sign-out is done, only in the step that
\* completes that upsert (or at once when the flag was clear).
C4_FlushAwaitedBeforeSwitch ==
  [][/\ (\E r \in upserts' \ upserts : r.cont.kind \in NavKinds)
          => (/\ isDirty
              /\ \E r \in upserts' \ upserts : r.row = CurrentRow
              /\ UNCHANGED <<user, month, year, ledger>>)
     /\ (ev' \in {"flush", "navigated", "savedNavigated", "saveFailedNavigated"}
         /\ (month' # month \/ year' # year \/ user' # user))
          => (\/ ~isDirty /\ upserts' = upserts
              \/ \E r \in upserts \ upserts' : r.cont.kind \in NavKinds)
     /\ (Shown /\ isDirty /\ nEvents' # nEvents
         /\ ev' \in {"flush", "navigated"})
          => (\E r \in upserts' \ upserts : r.cont.kind \in NavKinds)]_vars

C4_Witness == ev = "savedNavigated" /\ month = 11 /\ year = 2023

\* C5: a failed upsert leaves the in-memory ledger of the selected month exactly
\* as it was, with the dirty flag as it was, also when the upsert is the flush
\* of a navigation or logout.
C5_FailedUpsertKeepsLedger ==
  [][(edited /\ ev' \in {"saveFailed", "saveFailedNavigated"})
     => UNCHANGED <<user, month, year, ledger, isDirty>>]_vars

\* C6: the roster is seeded from the prior month only when the fetch for the
\* key reported that no row exists, never after a fetch that failed.
C6_SeedOnlyWhenNotFound ==
  [][ev' = "seeded" => \A f \in fetches \ fetches' : ~f.error]_vars

\* The rows a lookup of the latest earlier month finds for the requests that
\* were answered in this step.
LatestFor(answered) ==
  UNION {LatestBefore(store, q.user, q.month, q.year) : q \in answered}

HasMarks(students) == \E i \in DOMAIN students : DOMAIN students[i].meals # {}

\* C7: the seeded roster has the prior students in the prior order, each with
\* the prior id and name, and every student's meals empty.
C7_SeedKeepsStudentsClearsMeals ==
  [][ev' = "seeded"
     => \A latestData \in LatestFor(fetches \ fetches') :
          LET p == latestData.students
              n == ledger'.students
          IN /\ Len(n) = Len(p)
             /\ \A i \in DOMAIN p : /\ n[i].id = p[i].id
                                    /\ n[i].name = p[i].name
                                    /\ DOMAIN n[i].meals = {}]_vars

C7_Witness ==
  /\ ev = "seeded"
  /\ Len(ledger.students) = 2
  /\ ledger.students[1].id # ledger.students[2].id
  /\ ~HasMarks(ledger.students)
  /\ \E r \in store : Before(r, month, year) /\ HasMarks(r.students)

\* C8: the seeded ledger has the prior row's school name, class name, teacher
\* name, location and quotas, whatever they are.
C8_SeedCopiesHeaderVerbatim ==
  [][ev' = "seeded"
     => \A latestData \in LatestFor(fetches \ fetches') :
          /\ ledger'.schoolName = latestData.school_name
          /\ ledger'.className = latestData.class_name
          /\ ledger'.teacherName = latestData.teacher_name
          /\ ledger'.location = latestData.location
          /\ ledger'.standardMeals = latestData.standard_meals]_vars

\* No request is in flight and the editor is signed in.
Quiet == upserts = {} /\ fetches = {} /\ syncs = {} /\ user # NoUser

\* C9: a ledger seeded for the selected key is dirty at once, with the auto-save
\* pending under that key; and with no further event and no failure the seeded
\* ledger is eventually the row stored under the key.
C9_SeededIsSaved ==
  /\ [][ev' = "seeded"
        => \A f \in fetches \ fetches' :
             (f.user = user /\ f.month = month /\ f.year = year)
               => (/\ isDirty'
                   /\ timer' = {SaveClosure(f.user, f.month, f.year, ledger')})]_vars
  /\ \A n \in 0..MaxEvents, k \in 0..MaxFail :
       (ev = "seeded" /\ Quiet /\ nEvents = n /\ nFail = k)
         ~> (CurrentRow \in store \/ nEvents # n \/ nFail # k)

C9_Witness ==
  /\ ev = "saved"
  /\ nEvents = 0
  /\ nFail = 0
  /\ ~edited
  /\ Len(ledger.students) > 0
  /\ CurrentRow \in store

Ids(students) == {students[i].id : i \in DOMAIN students}
Distinct(students) == Cardinality(Ids(students)) = Len(students)

\* C10: sync with a found prior roster, ids pairwise distinct, keeps every
\* current student at its position with its meals, takes the prior name for an
\* id the prior roster has, and appends the prior students whose id is new, in
\* prior order, with empty meals.
C10_SyncMergesByIdentity ==
  [][ev' = "synced"
     => \A latestData \in LatestFor(syncs \ syncs') :
          LET cur == ledger.students
              prior == latestData.students
              out == ledger'.students
              fresh == SelectSeq(prior, LAMBDA ps : ps.id \notin Ids(cur))
          IN (Distinct(cur) /\ Distinct(prior))
               => /\ Len(out) = Len(cur) + Len(fresh)
                  /\ \A i \in DOMAIN cur :
                       /\ out[i].id = cur[i].id
                       /\ out[i].meals = cur[i].meals
                       /\ \A j \in DOMAIN prior :
                            prior[j].id = cur[i].id => out[i].name = prior[j].name
                       /\ cur[i].id \notin Ids(prior) => out[i] = cur[i]
                  /\ \A k \in DOMAIN fresh :
                       out[Len(cur) + k] = [id |-> fresh[k].id, name |-> fresh[k].name,
                                            meals |-> EmptyMealData]]_vars

C10_Witness ==
  /\ ev = "synced"
  /\ Len(ledger.students) = 3
  /\ Distinct(ledger.students)
  /\ ledger.students[1].name = "Linh Nguyen"
  /\ HasMarks(<<ledger.students[1]>>)
  /\ ledger.students[2].name = "Linh"
  /\ ledger.students[3].name = "Mai"
  /\ ~HasMarks(<<ledger.students[3]>>)

\* The last command and the one before it.
Top == trail[Len(trail)]
Pair(op1, op2) ==
  /\ Len(trail) = 2
  /\ trail[1].op = op1
  /\ trail[2].op = op2
  /\ trail[1].id = trail[2].id
  /\ trail[1].day = trail[2].day
  /\ trail[1].meal = trail[2].meal

IdsOf(students) == [i \in DOMAIN students |-> students[i].id]
NamesOf(students) == [i \in DOMAIN students |-> students[i].name]
AllDays == 1..31

\* C11: after toggleMeal(studentId, day, meal) twice in a row the mark of that
\* student for (day, meal) is what it was before the first, whether or not the
\* day held an entry.
C11_ToggleIsInvolution ==
  Pair("toggleMeal", "toggleMeal")
    => \A i \in DOMAIN ledger.students :
         ledger.students[i].id = Top.id
           => DayOf(ledger.students[i].meals, Top.day)[Top.meal]
                = DayOf(trail[1].before[i].meals, Top.day)[Top.meal]

C11_Witness ==
  /\ Pair("toggleMeal", "toggleMeal")
  /\ \E i \in DOMAIN ledger.students :
       /\ ledger.students[i].id = Top.id
       /\ Top.day \notin DOMAIN trail[1].before[i].meals
       /\ Top.day \in DOMAIN ledger.students[i].meals
  /\ Len(ledger.students) = 2

\* C12 as claimed: after copyColumn(d, m) and then pasteColumn(d, m) every
\* student's meals mapping is the mapping it was before the copy.
C12_CopyPasteColumnIsNoOp ==
  Pair("copyColumn", "pasteColumn") => ledger.students = trail[1].before

\* C12 as amended: after copyColumn(d, m) and then pasteColumn(d, m) every
\* student has the id, the name and, for every day and meal, the mark it had
\* before the copy (no entry reading as three false flags); the days with an
\* entry are those of before and d.
C12_CopyPasteColumnKeepsMarks ==
  Pair("copyColumn", "pasteColumn")
    => /\ IdsOf(ledger.students) = IdsOf(trail[1].before)
       /\ NamesOf(ledger.students) = NamesOf(trail[1].before)
       /\ \A i \in DOMAIN ledger.students :
            LET now == ledger.students[i].meals
                was == trail[1].before[i].meals
            IN /\ DOMAIN now = DOMAIN was \cup {Top.day}
               /\ \A d \in AllDays : DayOf(now, d) = DayOf(was, d)

C12_Witness ==
  /\ Pair("copyColumn", "pasteColumn")
  /\ \E i, j \in DOMAIN ledger.students :
       /\ DayOf(trail[1].before[i].meals, Top.day)[Top.meal]
       /\ Top.day \notin DOMAIN trail[1].before[j].meals
       /\ ledger.students[j].meals[Top.day] = NoMeals

\* C13: after fillColumn(d, m) and then clearColumn(d, m) the mark (d, m) is
\* false for every student, whatever it was before.
C13_FillThenClearIsAllFalse ==
  Pair("fillColumn", "clearColumn")
    => \A i \in DOMAIN ledger.students :
         /\ Top.day \in DOMAIN ledger.students[i].meals
         /\ ~ledger.students[i].meals[Top.day][Top.meal]

C13_Witness ==
  /\ Pair("fillColumn", "clearColumn")
  /\ \E i, j \in DOMAIN ledger.students :
       /\ DayOf(trail[1].before[i].meals, Top.day)[Top.meal]
       /\ Top.day \notin DOMAIN trail[1].before[j].meals
       /\ ~ledger.students[i].meals[Top.day][Top.meal]

\* The day of the week by the table of Sakamoto: 0 is Sunday.
WeekdayOf(d, m, y) ==
  LET t == <<0, 3, 2, 5, 0, 3, 5, 1, 4, 6, 2, 4>>
      yy == IF m < 2 THEN y - 1 ELSE y
  IN (yy + (yy \div 4) - (yy \div 100) + (yy \div 400) + t[m + 1] + d) % 7

AutoFilled == trail # << >> /\ Top.op = "autoFillMeals"

\* C14: after autoFillMeals every student has, on every day of the month that
\* is Monday to Thursday, S, T1 and T2 set, and on every Friday S and T1 set and
\* T2 clear, whatever the day held before.
C14_AutoFillSetsWorkdays ==
  AutoFilled
    => \A i \in DOMAIN ledger.students : \A d \in ShownDays :
         LET w == WeekdayOf(d, month, year)
             now == ledger.students[i].meals
         IN /\ w \in 1..4 => (d \in DOMAIN now /\ now[d] = AllSet)
            /\ w = 5 => (d \in DOMAIN now /\ now[d] = [AllSet EXCEPT !.T2 = FALSE])

C14_Witness ==
  /\ AutoFilled
  /\ \E i \in DOMAIN ledger.students :
       /\ DayOf(Top.before[i].meals, 12).T2
       /\ ~ledger.students[i].meals[12].T2
       /\ 1 \in DOMAIN Top.before[i].meals
       /\ ledger.students[i].meals[1] = AllSet
  /\ \E j \in DOMAIN ledger.students : Top.before[j].meals = EmptyMealData

\* C15: autoFillMeals leaves every Saturday and Sunday of every student as it
\* was (no entry stays no entry, an entry keeps its three flags), and the ids,
\* names and order of the students.
C15_AutoFillSkipsWeekend ==
  AutoFilled
    => /\ IdsOf(ledger.students) = IdsOf(Top.before)
       /\ NamesOf(ledger.students) = NamesOf(Top.before)
       /\ \A i \in DOMAIN ledger.students : \A d \in AllDays :
            LET now == ledger.students[i].meals
                was == Top.before[i].meals
            IN WeekdayOf(d, month, year) \in {0, 6}
                 => /\ (d \in DOMAIN now) = (d \in DOMAIN was)
                    /\ d \in DOMAIN was => now[d] = was[d]

C15_Witness ==
  /\ AutoFilled
  /\ \E i, j \in DOMAIN ledger.students :
       /\ 6 \in DOMAIN ledger.students[i].meals
       /\ ledger.students[i].meals[6] = [NoMeals EXCEPT !.T2 = TRUE]
       /\ 6 \notin DOMAIN ledger.students[j].meals
       /\ 5 \in DOMAIN ledger.students[j].meals

RECURSIVE Reversed(_)
Reversed(q) == IF q = << >> THEN << >> ELSE Append(Reversed(Tail(q)), Head(q))

\* The student without the entries of three false flags, and with such an
\* entry on every day of the month that had none.
Stripped(st) ==
  [st EXCEPT !.meals = [d \in {x \in DOMAIN @ : @[x] # NoMeals} |-> @[d]]]
Dense(st) ==
  [st EXCEPT !.meals = [d \in (DOMAIN @) \cup ShownDays |-> DayOf(@, d)]]

Flagged(st, meal) == {d \in DOMAIN st.meals : st.meals[d][meal]}

\* C16: calculateStudentTotals gives for each meal the number of days whose
\* flag is set, the same when the entries are read in the opposite order, and
\* the same with or without entries of three false flags.
C16_TotalsCountSetFlags ==
  \A i \in DOMAIN ledger.students :
    LET st == ledger.students[i]
        t == calculateStudentTotals(st, ledger.standardMeals)
    IN /\ t.S = Cardinality(Flagged(st, "S"))
       /\ t.T1 = Cardinality(Flagged(st, "T1"))
       /\ t.T2 = Cardinality(Flagged(st, "T2"))
       /\ CountMeals(Reversed(ValuesOf(st.meals)), ZeroCounts)
            = CountMeals(ValuesOf(st.meals), ZeroCounts)
       /\ calculateStudentTotals(Stripped(st), ledger.standardMeals) = t
       /\ calculateStudentTotals(Dense(st), ledger.standardMeals) = t

C16_Witness ==
  \E i \in DOMAIN ledger.students :
    LET st == ledger.students[i]
    IN /\ \E d \in DOMAIN st.meals : st.meals[d] = NoMeals
       /\ Cardinality(DOMAIN st.meals) >= 3
       /\ calculateStudentTotals(st, ledger.standardMeals).S = 2
       /\ calculateStudentTotals(st, ledger.standardMeals).T1 = 1
       /\ calculateStudentTotals(st, ledger.standardMeals).uT2 = 12
       /\ trail # << >>

\* C17: the ids of the students of the roster are pairwise distinct, whatever
\* was added, removed, seeded or synced.
C17_StudentIdsDistinct == Distinct(ledger.students)

\* C18: on the screen of (month, year) every day with an entry, of every
\* student, lies in 1..daysInMonth(month, year).
C18_DaysWithinMonth ==
  (Shown /\ fetches = {})
    => \A i \in DOMAIN ledger.students :
         DOMAIN ledger.students[i].meals \subseteq ShownDays

KeepsRoster ==
  {"toggleMeal", "pasteMeals", "pasteToAll", "pasteColumn", "fillColumn", "clearColumn",
   "clearDay", "clearMonth", "autoFillMeals"}

\* C19: toggle, pasteRow, pasteRowToAll, pasteColumn, fillColumn, clearColumn,
\* clearDay, clearMonth and autoFill leave the sequence of ids and the names as
\* they were, and after a sync the students that were in the roster are in the
\* order they were in.
C19_CommandsKeepRosterOrder ==
  [][/\ (trail' # trail /\ trail' # << >> /\ trail'[Len(trail')].op \in KeepsRoster)
          => /\ IdsOf(ledger'.students) = IdsOf(ledger.students)
             /\ NamesOf(ledger'.students) = NamesOf(ledger.students)
     /\ ev' = "synced"
          => IdsOf(SelectSeq(ledger'.students,
                             LAMBDA st : st.id \in Ids(ledger.students)))
               = IdsOf(ledger.students)]_vars

C19_Witness ==
  /\ trail # << >>
  /\ Top.op = "clearMonth"
  /\ Len(ledger.students) = 2
  /\ HasMarks(Top.before)
  /\ ~HasMarks(ledger.students)

\* C20: the store holds at most one row for a key (user_id, month, year).
C20_OneRowPerKey == \A r, q \in store : KeyOf(r) = KeyOf(q) => r = q

C20_Witness ==
  /\ ev = "saved"
  /\ edited
  /\ CurrentRow \in store
  /\ Cardinality(store) = 2

\* The step is the command op.
Does(op) == trail' # trail /\ trail' # << >> /\ trail'[Len(trail')].op = op

\* C21: pasteColumn(day, meal) gives the student at position i the i-th value
\* of the column clipboard for (day, meal), false where the clipboard has no
\* i-th value, whatever was added or removed since the copy; values past the
\* roster are dropped.
C21_PasteColumnByPosition ==
  [][Does("pasteColumn")
     => \E values \in columnClipboard :
          /\ Len(ledger'.students) = Len(ledger.students)
          /\ \A i \in DOMAIN ledger'.students :
               DayOf(ledger'.students[i].meals, Top'.day)[Top'.meal]
                 = (IF i <= Len(values) THEN values[i] ELSE FALSE)]_vars

C21_Witness ==
  /\ trail # << >>
  /\ Top.op = "pasteColumn"
  /\ \E values \in columnClipboard :
       /\ Len(values) = 1
       /\ values[1]
       /\ Len(ledger.students) = 2
       /\ Len(Top.before) = 2
       /\ ledger.students = pasteColumn(Top.before, Top.day, Top.meal, values)
       /\ DayOf(ledger.students[1].meals, Top.day)[Top.meal]
       /\ DayOf(Top.before[2].meals, Top.day)[Top.meal]
       /\ ~DayOf(ledger.students[2].meals, Top.day)[Top.meal]

\* C22: copyMeals puts the student's meals on the clipboard, no edit changes
\* the clipboard, and pasteMeals(b) makes b's meals the clipboard's (days b had
\* beside them are gone) and leaves the other students and the clipboard.
C22_PasteRowReplacesWithCopy ==
  [][/\ Does("copyMeals")
          => \E i \in DOMAIN ledger.students :
               /\ ledger.students[i].id = Top'.id
               /\ clipboard' = {ledger.students[i].meals}
     /\ clipboard' # clipboard => ev' = "copy" /\ Top'.op = "copyMeals"
     /\ Does("pasteMeals")
          => \E clip \in clipboard :
               /\ Len(ledger'.students) = Len(ledger.students)
               /\ \A i \in DOMAIN ledger.students :
                    ledger'.students[i]
                      = (IF ledger.students[i].id = Top'.id
                         THEN [ledger.students[i] EXCEPT !.meals = clip]
                         ELSE ledger.students[i])]_vars

C22_Witness ==
  /\ Len(trail) = 2
  /\ trail[1].op = "toggleMeal"
  /\ trail[2].op = "pasteMeals"
  /\ trail[1].id # trail[2].id
  /\ \E clip \in clipboard : \E a, b \in DOMAIN ledger.students :
       /\ ledger.students[a].id = trail[1].id
       /\ ledger.students[b].id = trail[2].id
       /\ trail[1].before[a].meals = clip
       /\ ledger.students[a].meals # clip
       /\ ledger.students[b].meals = clip
       /\ ~(DOMAIN trail[2].before[b].meals \subseteq DOMAIN clip)

\* C23: after clearDay(day) no student has an entry for the day, the three
\* head counts of the day are 0, and every other day of every student is as it
\* was.
C23_ClearDayRemovesTheDay ==
  (trail # << >> /\ Top.op = "clearDay")
    => /\ IdsOf(ledger.students) = IdsOf(Top.before)
       /\ NamesOf(ledger.students) = NamesOf(Top.before)
       /\ \A meal \in MealTypes : calculateDayTotals(ledger.students, Top.day, meal) = 0
       /\ \A i \in DOMAIN ledger.students :
            /\ Top.day \notin DOMAIN ledger.students[i].meals
            /\ DOMAIN ledger.students[i].meals = (DOMAIN Top.before[i].meals) \ {Top.day}
            /\ \A d \in DOMAIN ledger.students[i].meals :
                 ledger.students[i].meals[d] = Top.before[i].meals[d]

C23_Witness ==
  /\ trail # << >>
  /\ Top.op = "clearDay"
  /\ Len(ledger.students) = 2
  /\ \A i \in {1, 2} : Top.day \in DOMAIN Top.before[i].meals
  /\ \E meal \in MealTypes : calculateDayTotals(Top.before, Top.day, meal) = 2
  /\ HasMarks(ledger.students)

\* C24: clearMonth leaves every student, in order, with the same id and name
\* and an empty mapping of days; clearAllStudents leaves no student.
C24_ClearMonthKeepsStudents ==
  /\ (trail # << >> /\ Top.op = "clearMonth")
       => /\ IdsOf(ledger.students) = IdsOf(Top.before)
          /\ NamesOf(ledger.students) = NamesOf(Top.before)
          /\ \A i \in DOMAIN ledger.students : DOMAIN ledger.students[i].meals = {}
  /\ (trail # << >> /\ Top.op = "clearAllStudents") => ledger.students = << >>

C24_Witness ==
  /\ Pair("clearMonth", "clearAllStudents")
  /\ Len(trail[1].before) = 2
  /\ \A i \in {1, 2} : DOMAIN trail[1].before[i].meals # {}
  /\ Len(Top.before) = 2
  /\ ~HasMarks(Top.before)
  /\ ledger.students = << >>

\* C25: fillColumn(day, meal) and clearColumn(day, meal) set the flag of that
\* meal on that day, true and false, and change no other flag of any day, nor
\* which other days a student has an entry for.
C25_ColumnCommandsTouchOneFlag ==
  (trail # << >> /\ Top.op \in {"fillColumn", "clearColumn"})
    => /\ IdsOf(ledger.students) = IdsOf(Top.before)
       /\ NamesOf(ledger.students) = NamesOf(Top.before)
       /\ \A i \in DOMAIN ledger.students :
            /\ DayOf(ledger.students[i].meals, Top.day)[Top.meal]
                 = (Top.op = "fillColumn")
            /\ (DOMAIN ledger.students[i].meals) \ {Top.day}
                 = (DOMAIN Top.before[i].meals) \ {Top.day}
            /\ \A d \in AllDays, meal \in MealTypes :
                 (d # Top.day \/ meal # Top.meal)
                   => DayOf(ledger.students[i].meals, d)[meal]
                        = DayOf(Top.before[i].meals, d)[meal]

C25_Witness ==
  /\ trail # << >>
  /\ Top.op = "fillColumn"
  /\ \E i \in DOMAIN ledger.students :
       /\ Top.day \in DOMAIN Top.before[i].meals
       /\ ~Top.before[i].meals[Top.day][Top.meal]
       /\ \E meal \in MealTypes \ {Top.meal} : Top.before[i].meals[Top.day][meal]
       /\ \E meal \in MealTypes \ {Top.meal} : ~ledger.students[i].meals[Top.day][meal]
       /\ ledger.students[i].meals[Top.day][Top.meal]

\* C26: an upload that is reported (no rows, no name column, no usable name)
\* or declined leaves the roster as it was; an accepted one leaves exactly the
\* names found, in order, each with empty marks and an id that no other new
\* student and no student of the replaced roster has.
C26_ImportReplacesOrLeaves ==
  [][/\ ev' \in {"importReported", "importDeclined"} /\ jsonData' # jsonData
          => ledger' = ledger
     /\ ev' = "imported"
          => /\ NamesOf(ledger'.students) = Extracted(jsonData').names
             /\ \A i \in DOMAIN ledger'.students : ledger'.students[i].meals = EmptyMealData
             /\ Distinct(ledger'.students)
             /\ Ids(ledger'.students) \cap Ids(ledger.students) = {}]_vars

\* The same without the ids.
C26_ImportNamesAndMarks ==
  [][/\ ev' \in {"importReported", "importDeclined"} => ledger' = ledger
     /\ ev' = "imported"
          => /\ NamesOf(ledger'.students) = Extracted(jsonData').names
             /\ Len(ledger'.students) > 0
             /\ \A i \in DOMAIN ledger'.students : ledger'.students[i].meals = EmptyMealData]_vars

PageA == workbook[1]
PageB == workbook[2]

\* How many columns of the page have the key.
Columns(page, key) == Cardinality({k \in DOMAIN page.cols : page.cols[k] = key})

\* C27: the first sheet of an export has 2 + 16*3 = 50 columns, the second has
\* 2 + 3*(daysInMonth - 16) + 6, and each day 1..daysInMonth with each of its
\* meals has one column, on one of the two sheets.
C27_ExportPagesSplitTheMonth ==
  workbook # << >>
    => LET daysInMonth == getDaysInMonth(month, year)
       IN /\ Len(PageA.cols) = 50
          /\ PageA.lastCol = 50
          /\ PageA.titleMerge = 50
          /\ Len(PageB.cols) = 2 + 3 * (daysInMonth - 16) + 6
          /\ PageB.lastCol = Len(PageB.cols)
          /\ \A page \in {PageA, PageB} :
               /\ Len(page.headerRow2Values) = Len(page.cols)
               /\ Len(page.totalRowValues) = Len(page.cols)
               /\ \A r \in DOMAIN page.rows : Len(page.rows[r]) = Len(page.cols)
          /\ \A d \in 1..daysInMonth, meal \in MealTypes :
               Columns(PageA, DayKey(d, meal)) + Columns(PageB, DayKey(d, meal)) = 1
          /\ \A d \in AllDays \ (1..daysInMonth) :
               Columns(PageA, DayKey(d, "S")) + Columns(PageB, DayKey(d, "S")) = 0

C27_Witness ==
  /\ workbook # << >>
  /\ getDaysInMonth(month, year) = 29
  /\ Len(PageB.cols) = 47
  /\ Len(PageA.rows) = 2

\* C28: on either sheet the totals row holds, under each (day, meal), the
\* number of student rows of the sheet whose cell in that column is "+", and
\* on the second sheet its last six cells are empty.
C28_TotalsRowCountsMarks ==
  workbook # << >>
    => /\ \A page \in {PageA, PageB} :
            \A k \in 3..(2 + 3 * Len(page.days)) :
              page.totalRowValues[k]
                = ToString(Cardinality({r \in DOMAIN page.rows : page.rows[r][k] = "+"}))
       /\ \A k \in (Len(PageB.cols) - 5)..Len(PageB.cols) : PageB.totalRowValues[k] = ""

C28_Witness ==
  /\ workbook # << >>
  /\ Len(PageB.rows) = 2
  /\ \E k \in 3..(2 + 3 * Len(PageB.days)) :
       /\ PageB.totalRowValues[k] = "2"
       /\ PageB.rows[1][k] = "+"
  /\ \E k \in 3..50 :
       /\ PageA.totalRowValues[k] = "1"
       /\ PageA.rows[1][k] = ""
       /\ PageA.rows[2][k] = "+"

\* The length of the month m (0 is January) of the year y.
CalendarLength(m, y) ==
  LET leap == IF y % 400 = 0 THEN TRUE ELSE IF y % 100 = 0 THEN FALSE ELSE y % 4 = 0
  IN <<31, IF leap THEN 29 ELSE 28, 31, 30, 31, 30, 31, 31, 30, 31, 30, 31>>[m + 1]

WeekdayLabel(w) ==
  CASE w = 0 -> "CN" [] w = 1 -> "2" [] w = 2 -> "3" [] w = 3 -> "4"
    [] w = 4 -> "5" [] w = 5 -> "6" [] w = 6 -> "7"

\* C29: for the month on screen, getDaysInMonth is the length of the month in
\* the Gregorian calendar and getDayOfWeek gives every day of it the label of
\* its weekday in the proleptic Gregorian calendar, CN for Sunday, 2 for Monday
\* up to 7 for Saturday.
C29_WeekdayAndMonthLength ==
  Shown
    => /\ getDaysInMonth(month, year) = CalendarLength(month, year)
       /\ \A d \in 1..CalendarLength(month, year) :
            getDayOfWeek(d, month, year) = WeekdayLabel(WeekdayOf(d, month, year))

\* The same for the years from 100 on.
C29_FromYear100 ==
  (Shown /\ year >= 100)
    => /\ getDaysInMonth(month, year) = CalendarLength(month, year)
       /\ \A d \in 1..CalendarLength(month, year) :
            getDayOfWeek(d, month, year) = WeekdayLabel(WeekdayOf(d, month, year))

\* C30: an upsert is issued with the ledger in memory under the selected
\* (month, year), and the ledger in memory is set only by the answer to a fetch
\* for the selected (month, year): an answer to a fetch for another month never
\* becomes the ledger on screen.
C30_LedgerBelongsToSelectedKey ==
  [][/\ \A u \in upserts' \ upserts : u.row = CurrentRow
     /\ ev' \in {"loaded", "seeded", "empty"}
          => \A f \in fetches \ fetches' : f.month = month' /\ f.year = year']_vars

\* The owner's rows strictly before (m, y) that no other such row follows.
PriorOf(uid, m, y) ==
  LET rank(r) == r.year * 12 + r.month
      earlier == {r \in store : r.user_id = uid /\ rank(r) < y * 12 + m}
  IN {r \in earlier : \A q \in earlier : rank(q) <= rank(r)}

\* C31: a roster is seeded, and a sync merged, from the owner's latest row
\* strictly before the selected (month, year); when the owner has no earlier
\* row the month opens with no student and a sync leaves the ledger as it is.
C31_PriorIsLatestBeforeSelected ==
  [][/\ ev' = "seeded"
          => \E f \in fetches \ fetches' : \E prior \in PriorOf(f.user, month', year') :
               ledger' = SeededLedger(prior)
     /\ ev' = "synced"
          => \E q \in syncs \ syncs' : \E prior \in PriorOf(q.user, month', year') :
               ledger' = [ledger EXCEPT !.students = syncStudents(@, prior.students)]
     /\ ev' \in {"seeded", "empty"}
          => \A f \in fetches \ fetches' :
               PriorOf(f.user, month', year') = {} => ledger'.students = << >>
     /\ ev' \in {"synced", "nothingToSync"}
          => \A q \in syncs \ syncs' :
               PriorOf(q.user, month', year') = {} => ledger' = ledger]_vars

\* The same with the (month, year) the lookup was made for; a lookup that
\* fails finds nothing.
C31_PriorIsLatestBeforeLookup ==
  [][/\ ev' = "seeded"
          => \E f \in fetches \ fetches' : \E prior \in PriorOf(f.user, f.month, f.year) :
               ledger' = SeededLedger(prior)
     /\ ev' = "synced"
          => \E q \in syncs \ syncs' : \E prior \in PriorOf(q.user, q.month, q.year) :
               ledger' = [ledger EXCEPT !.students = syncStudents(@, prior.students)]
     /\ ev' = "empty"
          => /\ ledger'.students = << >>
             /\ \E f \in fetches \ fetches' :
                  nFail' # nFail \/ PriorOf(f.user, f.month, f.year) = {}
     /\ ev' = "nothingToSync"
          => /\ ledger' = ledger
             /\ \E q \in syncs \ syncs' :
                  nFail' # nFail \/ PriorOf(q.user, q.month, q.year) = {}]_vars

\* C32: at most one auto-save timer is pending, the pending timer is the one
\* armed for the ledger in memory under the selected key (a mutation or a
\* change of month or year leaves no other one), and the upsert a firing timer
\* issues is the row of the ledger in memory under the selected key.
C32_TimerCarriesCurrentLedger ==
  [][/\ Cardinality(timer') <= 1
     /\ \A c \in timer' : c = CurrentClosure'
     /\ ev' = "timer" => \A u \in upserts' \ upserts : u.row = CurrentRow]_vars

C32_Witness ==
  /\ ev = "timer"
  /\ edited
  /\ \E u \in upserts : u.row = CurrentRow /\ u.cont = NoCont
  /\ HasMarks(ledger.students)

\* C33: when the ledger is on screen with the dirty flag clear and no upsert in
\* flight, the row stored under the selected key is the ledger in memory, or
\* there is no such row and the ledger is the initial one; and when an upsert
\* completes that does not carry the ledger in memory, the flag stays set.
C33_CleanMeansPersisted ==
  [][/\ (Shown' /\ ~isDirty' /\ upserts' = {})
          => \/ CurrentRow' \in store'
             \/ /\ SelectKey(store', user', month', year') = {}
                /\ ledger' = InitialLedger
     /\ (isDirty /\ ev' = "saved")
          => \A u \in upserts \ upserts' :
               u.row # RowOf(u.row.user_id, u.row.month, u.row.year, ledger') => isDirty']_vars

\* C34: the selected month is always one of 0..11, and every completed
\* prevMonth (nextMonth) selects exactly the preceding (following) calendar
\* month, the year changing by one only across January/December, also when
\* several navigations overlap while their flush upsert is awaited.
C34_NavigationMovesOneMonth ==
  [][LET rank == year * 12 + month
         rank2 == year' * 12 + month'
     IN /\ month' \in 0..11
        /\ \A r \in upserts \ upserts' :
             /\ r.cont.kind = "prevMonth" => rank2 = rank - 1
             /\ r.cont.kind = "nextMonth" => rank2 = rank + 1
        /\ (ev' = "navigated" /\ user' = user /\ month' # month)
             => rank2 \in {rank - 1, rank + 1}]_vars

\* C35: the result of an explicit sync is merged only into the roster of the
\* (month, year) for which its lookup was made: when another month has been
\* selected and loaded while the lookup was in flight, the answer leaves the
\* roster of that month as it is.
C35_SyncMergesIntoItsOwnMonth ==
  [][\A q \in syncs \ syncs' :
       (Shown /\ (q.month # month \/ q.year # year))
         => ledger'.students = ledger.students]_vars

\* C36: a re-fetch of the selected key, as an auth-state change triggers, never
\* overwrites a dirty ledger in memory with the persisted record: when the
\* answer of a fetch made for the selected key and user arrives while the
\* ledger holds unsaved hand edits, the ledger stays as it is.
C36_RefetchKeepsDirtyLedger ==
  [][\A f \in fetches \ fetches' :
       (/\ ev' = "loaded"
        /\ isDirty /\ edited
        /\ f.user = user /\ f.month = month /\ f.year = year)
         => ledger' = ledger]_vars

\* C37: immediately after the load of a month whose ledger exists, or of an
\* empty month with no earlier ledger, the dirty flag is false, and it stays
\* false until the first mutation: a navigation or logout made without an
\* edit after such a load issues no upsert.
C37_LoadLeavesFlagClear ==
  [][/\ \A f \in fetches \ fetches' :
          (\/ ev' = "loaded"
           \/ ev' = "empty" /\ LatestBefore(store, f.user, f.month, f.year) = {})
            => ~isDirty'
     /\ ev = "loaded" => ev' # "flush"]_vars

\* The "+" cells of a student's row in the day columns of one sheet for one
\* meal, the meals standing at offsets 0 (S), 1 (T1) and 2 (T2) of each day.
ShownMarks(page, r, offset) ==
  Cardinality({k \in 3..(2 + 3 * Len(page.days)) :
                 (k - 3) % 3 = offset /\ page.rows[r][k] = "+"})

\* C38: for every student the fulfilled S, T1 and T2 counts in the summary
\* columns of the second page equal the number of marks shown for that student
\* and meal in the day columns of the two pages together, and the unfulfilled
\* counts are the quota minus that number, signed.
C38_SummaryCountsShownMarks ==
  Shown
    => LET A == createSheet("Trang 1", firstHalfDays, FALSE)
           B == createSheet("Trang 2", secondHalfDays(getDaysInMonth(month, year)), TRUE)
           n == Len(B.cols)
           quota == <<ledger.standardMeals.S, ledger.standardMeals.T1,
                      ledger.standardMeals.T2>>
       IN \A r \in DOMAIN B.rows :
            \A o \in 0..2 :
              LET marks == ShownMarks(A, r, o) + ShownMarks(B, r, o)
              IN /\ B.rows[r][n - 5 + o] = marks
                 /\ B.rows[r][n - 2 + o] = quota[o + 1] - marks

====
